---- MODULE Spec2Model ----
(***************************************************************************)
(* The external client of bankers_bonus.mpc                                *)
(* (ExternalIO/bankers-bonus-client.cpp): handshake with every SPDZ        *)
(* engine, send_private_inputs (receive triple shares, check, send the     *)
(* masked inputs), receive_result (receive output shares, authenticate,    *)
(* return), close the sockets.                                             *)
(*                                                                         *)
(* Indices are the code's: parties, input slots and triple components      *)
(* count from 0.  A frame on the wire is the sequence of field elements    *)
(* an octetStream carries; the byte encoding of one element belongs to     *)
(* gfp and is not modelled.                                                *)
(***************************************************************************)
EXTENDS Integers, Sequences, FiniteSets, TLC

\* ------------------------------------------------------------------ bounds

\* Largest number of SPDZ engines (argv[2]).
MaxParties == 2

\* The prime of gfp, read from Params-Data by initialise_fields.
P == 3

\* Command lines <<client id, salary, finish>>; the first three are the
\* runs of the header comment.
Argv == { <<0, 100, 0>>, <<1, 200, 0>>, <<2, 50, 1>>, <<3, 9, 1>> }

\* Value vectors a caller hands to send_private_inputs on its own (main always
\* hands over one value).
ValueVecs == { <<>>, <<1>>, <<2, 1>>, <<0, 2>> }

\* Nothing returned, printed or reported yet.
None == <<>>

\* ------------------------------------------------------------ gfp (Math/gfp.h)

Gfp == 0 .. (P - 1)

gfpZero == 0

gfpFromInt(x) == x % P

gfpAdd(a, b) == (a + b) % P

gfpMul(a, b) == (a * b) % P

\* The shares one engine may put in a frame that carries n input slots: the
\* whole field for one slot, two values of it for more.
ShareVals(n) == IF n <= 1 THEN Gfp ELSE {0, 1}

Seqs(S, n) == [1 .. n -> S]

\* The frames an engine may send where the client decodes need elements for n
\* input slots: every frame of exactly need shares, one frame with a surplus
\* element, and the frames of k < need elements.
Frames(need, n) ==
    Seqs(ShareVals(n), need) \cup { [x \in 1 .. k |-> 1] : k \in 0 .. (need + 1) }

\* -------------------------------------------------------------------- state

VARIABLES
    pc,             \* where the client is
    nparties,       \* argv[2]
    my_client_id,   \* argv[1]
    salary_value,   \* argv[3]
    finish,         \* argv[4]
    sockets,        \* party -> "unset" | "open" | "closed"
    wire,           \* party -> what the client has sent on that socket
    values,         \* send_private_inputs: the private values, slot -> gfp
    i, j,           \* loop counters
    triples,        \* send_private_inputs: slot -> component -> gfp
    os,             \* the octetStream of the running function
    output_values,  \* receive_result: component -> gfp
    result,         \* main: << what receive_result returned >>
    cout,           \* << the winner main printed >>
    cerr,           \* the abort message
    rcvd,           \* frames received by the running function, in order
    events          \* the I/O and checks performed so far, in order

vars == << pc, nparties, my_client_id, salary_value, finish, sockets, wire,
           values, i, j, triples, os, output_values, result, cout, cerr,
           rcvd, events >>

args == << nparties, my_client_id, salary_value, finish >>

num_inputs == Len(values)

Parties == 0 .. (nparties - 1)

Slots == 0 .. (num_inputs - 1)

ZeroTriples(n) == [s \in 0 .. (n - 1) |-> [k \in 0 .. 2 |-> gfpZero]]

ZeroOutput == [k \in 0 .. 2 |-> gfpZero]

Ev(op, at) == [op |-> op, at |-> at]

\* --------------------------------------------------------------------- main

\* main up to the socket loop: the arguments are parsed, nothing is open.
Init ==
    /\ pc = "main_setup"
    /\ nparties \in 1 .. MaxParties
    /\ \E a \in Argv :
          /\ my_client_id = a[1]
          /\ salary_value = a[2]
          /\ finish = a[3]
    /\ sockets = [p \in Parties |-> "unset"]
    /\ wire = [p \in Parties |-> <<>>]
    /\ values = <<>>
    /\ i = 0
    /\ j = 0
    /\ triples = ZeroTriples(0)
    /\ os = <<>>
    /\ output_values = ZeroOutput
    /\ result = None
    /\ cout = None
    /\ cerr = None
    /\ rcvd = <<>>
    /\ events = <<>>

\* The socket loop sending its loop counter where the client id belongs.
MainSetup_sendsIndex ==
    /\ pc = "main_setup"
    /\ i < nparties
    /\ sockets' = [sockets EXCEPT ![i] = "open"]
    /\ wire' = [wire EXCEPT ![i] = @ \o << [kind |-> "id", val |-> i],
                                           [kind |-> "finish", val |-> finish] >>]
    /\ events' = events \o << Ev("connect", i), Ev("send_id", i), Ev("send_finish", i) >>
    /\ i' = i + 1
    /\ UNCHANGED << pc, args, values, j, triples, os, output_values, result,
                    cout, cerr, rcvd >>

\* One round of the socket loop: connect, send the id, send the finish flag.
MainSetup ==
    /\ pc = "main_setup"
    /\ i < nparties
    /\ sockets' = [sockets EXCEPT ![i] = "open"]
    /\ wire' = [wire EXCEPT ![i] = @ \o << [kind |-> "id", val |-> my_client_id],
                                           [kind |-> "finish", val |-> finish] >>]
    /\ events' = events \o << Ev("connect", i), Ev("send_id", i), Ev("send_finish", i) >>
    /\ i' = i + 1
    /\ UNCHANGED << pc, args, values, j, triples, os, output_values, result,
                    cout, cerr, rcvd >>

\* main calls send_private_inputs({salary_value}, sockets, nparties).
MainCallSPI ==
    /\ pc = "main_setup"
    /\ ~(i < nparties)
    /\ values' = << gfpFromInt(salary_value) >>
    /\ triples' = ZeroTriples(1)
    /\ os' = <<>>
    /\ rcvd' = <<>>
    /\ i' = 0
    /\ j' = 0
    /\ events' = Append(events, Ev("call_send_private_inputs", 0))
    /\ pc' = "spi_recv"
    /\ UNCHANGED << args, sockets, wire, output_values, result, cout, cerr >>

\* ------------------------------------------------------ send_private_inputs

\* What the decoder of a frame needs: 3 elements for each input slot.
TripleFrameLen == 3 * num_inputs

\* need calls of gfp::unpack on the frame succeed: the elements are there.
Decodes(f, need) == Len(f) >= need

\* The loops with = where the code has +=.
Accumulate_assign(tr, f, cnt) ==
    [s \in DOMAIN tr |->
        [k \in 0 .. 2 |->
            IF 3 * s + k < cnt THEN f[3 * s + k + 1] ELSE tr[s][k]]]

\* The inner loop running over two components only.
Accumulate_twoComponents(tr, f, cnt) ==
    [s \in DOMAIN tr |->
        [k \in 0 .. 2 |->
            IF 3 * s + k < cnt /\ k < 2
            THEN gfpAdd(tr[s][k], f[3 * s + k + 1])
            ELSE tr[s][k]]]

\* The loops reading every slot from the start of the frame.
Accumulate_noOffset(tr, f, cnt) ==
    [s \in DOMAIN tr |->
        [k \in 0 .. 2 |->
            IF 3 * s + k < cnt THEN gfpAdd(tr[s][k], f[k + 1]) ELSE tr[s][k]]]

\* for (j < num_inputs) for (k < 3) { unpack; triples[j][k] += share }: the
\* element at position 3*s+k of the frame is added to triples[s][k]; cnt is
\* the number of elements unpacked (all of them unless the frame ends early).
Accumulate(tr, f, cnt) ==
    [s \in DOMAIN tr |->
        [k \in 0 .. 2 |->
            IF 3 * s + k < cnt
            THEN gfpAdd(tr[s][k], f[3 * s + k + 1])
            ELSE tr[s][k]]]

\* The receive loop stopping one party early.
SPI_MoreParties_short == j < nparties - 1

\* for (int j = 0; j < nparties; j++)
SPI_MoreParties == j < nparties

\* One round of the receive loop with a frame that decodes.
SPI_Receive ==
    /\ pc = "spi_recv"
    /\ SPI_MoreParties
    /\ \E f \in Frames(TripleFrameLen, num_inputs) :
          /\ Decodes(f, TripleFrameLen)
          /\ os' = f
          /\ rcvd' = Append(rcvd, f)
          /\ triples' = Accumulate(triples, f, TripleFrameLen)
    /\ events' = Append(events, Ev("recv_triples", j))
    /\ j' = j + 1
    /\ UNCHANGED << pc, args, sockets, wire, values, i, output_values, result,
                    cout, cerr >>

\* os.Receive fails (connection lost, timeout): it throws, nothing catches.
SPI_ReceiveFail ==
    /\ pc = "spi_recv"
    /\ SPI_MoreParties
    /\ events' = Append(events, Ev("recv_fail", j))
    /\ pc' = "terminated"
    /\ UNCHANGED << args, sockets, wire, values, i, j, triples, os,
                    output_values, result, cout, cerr, rcvd >>

\* One round of the receive loop with a frame that ends early: the elements
\* that are there are accumulated, the first unpack past the end throws.
SPI_FramingError ==
    /\ pc = "spi_recv"
    /\ SPI_MoreParties
    /\ \E f \in Frames(TripleFrameLen, num_inputs) :
          /\ ~Decodes(f, TripleFrameLen)
          /\ os' = f
          /\ rcvd' = Append(rcvd, f)
          /\ triples' = Accumulate(triples, f, Len(f))
    /\ events' = events \o << Ev("recv_triples", j), Ev("framing_error", j) >>
    /\ pc' = "terminated"
    /\ UNCHANGED << args, sockets, wire, values, i, j, output_values, result,
                    cout, cerr >>

\* The receive loop ends.
SPI_ReceiveDone ==
    /\ pc = "spi_recv"
    /\ ~SPI_MoreParties
    /\ i' = 0
    /\ pc' = "spi_check"
    /\ UNCHANGED << args, sockets, wire, values, j, triples, os, output_values,
                    result, cout, cerr, rcvd, events >>

\* The check with two components swapped.
TripleOK_swapped(t) == gfpMul(t[0], t[2]) = t[1]

\* triples[i][0] * triples[i][1] != triples[i][2], negated
TripleOK(t) == gfpMul(t[0], t[1]) = t[2]

\* The check loop stopping one slot early.
SPI_MoreSlots_short == i < num_inputs - 1

\* for (int i = 0; i < num_inputs; i++)
SPI_MoreSlots == i < num_inputs

\* One round of the check loop, the triple of slot i is valid.
SPI_CheckPass ==
    /\ pc = "spi_check"
    /\ SPI_MoreSlots
    /\ TripleOK(triples[i])
    /\ events' = Append(events, Ev("check_triple", i))
    /\ i' = i + 1
    /\ UNCHANGED << pc, args, sockets, wire, values, j, triples, os,
                    output_values, result, cout, cerr, rcvd >>

\* The bad triple reported without exit(1): the loop goes on.
SPI_CheckFail_noExit ==
    /\ pc = "spi_check"
    /\ i < num_inputs
    /\ ~TripleOK(triples[i])
    /\ events' = Append(events, Ev("check_triple", i))
    /\ cerr' = << "Incorrect triple at", i >>
    /\ i' = i + 1
    /\ UNCHANGED << pc, args, sockets, wire, values, j, triples, os,
                    output_values, result, cout, rcvd >>

\* One round of the check loop, the triple of slot i is not valid: exit(1).
SPI_CheckFail ==
    /\ pc = "spi_check"
    /\ SPI_MoreSlots
    /\ ~TripleOK(triples[i])
    /\ events' = Append(events, Ev("check_triple", i))
    /\ cerr' = << "Incorrect triple at", i >>
    /\ pc' = "exit1"
    /\ UNCHANGED << args, sockets, wire, values, i, j, triples, os,
                    output_values, result, cout, rcvd >>

\* The value sent as it is, no mask added.
Masked_plain(v, t) == v

\* The mask taken from the second component of the triple.
Masked_second(v, t) == gfpAdd(v, t[1])

\* gfp y = values[i] + triples[i][0]
Masked(v, t) == gfpAdd(v, t[0])

\* The frame of masked values, slot order.
PackMasked(vals, tr) == [s \in 1 .. Len(vals) |-> Masked(vals[s], tr[s - 1])]

\* The check loop ends; the masked values are packed into os.
SPI_Pack ==
    /\ pc = "spi_check"
    /\ ~SPI_MoreSlots
    /\ os' = PackMasked(values, triples)
    /\ j' = 0
    /\ pc' = "spi_send"
    /\ UNCHANGED << args, sockets, wire, values, i, triples, output_values,
                    result, cout, cerr, rcvd, events >>

\* One round of the send loop: os.Send(sockets[j]).
SPI_Send ==
    /\ pc = "spi_send"
    /\ j < nparties
    /\ wire' = [wire EXCEPT ![j] = Append(@, [kind |-> "masked", val |-> os])]
    /\ events' = Append(events, Ev("send_masked", j))
    /\ j' = j + 1
    /\ UNCHANGED << pc, args, sockets, values, i, triples, os, output_values,
                    result, cout, cerr, rcvd >>

\* The send loop left after its first round.
SPI_Return_early ==
    /\ pc = "spi_send"
    /\ j >= 1
    /\ triples' = ZeroTriples(0)
    /\ os' = <<>>
    /\ rcvd' = <<>>
    /\ i' = 0
    /\ j' = 0
    /\ pc' = "spi_ret"
    /\ UNCHANGED << args, sockets, wire, values, output_values, result, cout,
                    cerr, events >>

\* The send loop ends and send_private_inputs returns; its locals are gone.
SPI_Return ==
    /\ pc = "spi_send"
    /\ ~(j < nparties)
    /\ triples' = ZeroTriples(0)
    /\ os' = <<>>
    /\ rcvd' = <<>>
    /\ i' = 0
    /\ j' = 0
    /\ pc' = "spi_ret"
    /\ UNCHANGED << args, sockets, wire, values, output_values, result, cout,
                    cerr, events >>

NextSPI ==
    \/ SPI_Receive
    \/ SPI_ReceiveFail
    \/ SPI_FramingError
    \/ SPI_ReceiveDone
    \/ SPI_CheckPass
    \/ SPI_CheckFail
    \/ SPI_Pack
    \/ SPI_Send
    \/ SPI_Return

\* send_private_inputs called on its own with any of the value vectors, over
\* sockets that are open.
InitSPI ==
    /\ pc = "spi_recv"
    /\ nparties \in 1 .. MaxParties
    /\ my_client_id = 0
    /\ salary_value = 0
    /\ finish = 0
    /\ sockets = [p \in Parties |-> "open"]
    /\ wire = [p \in Parties |-> <<>>]
    /\ values \in ValueVecs
    /\ i = 0
    /\ j = 0
    /\ triples = ZeroTriples(num_inputs)
    /\ os = <<>>
    /\ output_values = ZeroOutput
    /\ result = None
    /\ cout = None
    /\ cerr = None
    /\ rcvd = <<>>
    /\ events = <<>>

SpecSPI == InitSPI /\ [][NextSPI]_vars

\* ----------------------------------------------------------- receive_result

\* main calls receive_result(sockets, nparties).
MainCallRR ==
    /\ pc = "spi_ret"
    /\ output_values' = ZeroOutput
    /\ os' = <<>>
    /\ rcvd' = <<>>
    /\ i' = 0
    /\ events' = Append(events, Ev("call_receive_result", 0))
    /\ pc' = "rr_recv"
    /\ UNCHANGED << args, sockets, wire, values, j, triples, result, cout, cerr >>

\* The loop with = where the code has +=.
AccumulateOutput_assign(ov, f, cnt) ==
    [k \in 0 .. 2 |-> IF k < cnt THEN f[k + 1] ELSE ov[k]]

\* for (j < 3) { value.unpack(os); output_values[j] += value; }
AccumulateOutput(ov, f, cnt) ==
    [k \in 0 .. 2 |-> IF k < cnt THEN gfpAdd(ov[k], f[k + 1]) ELSE ov[k]]

\* for (int i = 0; i < nparties; i++)
RR_MoreParties == i < nparties

\* One round of the receive loop with a frame that decodes.
RR_Receive ==
    /\ pc = "rr_recv"
    /\ RR_MoreParties
    /\ \E f \in Frames(3, 1) :
          /\ Decodes(f, 3)
          /\ os' = f
          /\ rcvd' = Append(rcvd, f)
          /\ output_values' = AccumulateOutput(output_values, f, 3)
    /\ events' = Append(events, Ev("recv_output", i))
    /\ i' = i + 1
    /\ UNCHANGED << pc, args, sockets, wire, values, j, triples, result, cout,
                    cerr >>

\* The failure caught inside the loop, which goes on with the next party.
RR_ReceiveFail_swallowed ==
    /\ pc = "rr_recv"
    /\ i < nparties
    /\ events' = Append(events, Ev("recv_fail", i))
    /\ i' = i + 1
    /\ UNCHANGED << pc, args, sockets, wire, values, j, triples, os,
                    output_values, result, cout, cerr, rcvd >>

\* os.Receive fails (connection lost, timeout): it throws, nothing catches.
RR_ReceiveFail ==
    /\ pc = "rr_recv"
    /\ RR_MoreParties
    /\ events' = Append(events, Ev("recv_fail", i))
    /\ pc' = "terminated"
    /\ UNCHANGED << args, sockets, wire, values, i, j, triples, os,
                    output_values, result, cout, cerr, rcvd >>

\* One round of the receive loop with a frame that ends early.
RR_FramingError ==
    /\ pc = "rr_recv"
    /\ RR_MoreParties
    /\ \E f \in Frames(3, 1) :
          /\ ~Decodes(f, 3)
          /\ os' = f
          /\ rcvd' = Append(rcvd, f)
          /\ output_values' = AccumulateOutput(output_values, f, Len(f))
    /\ events' = events \o << Ev("recv_output", i), Ev("framing_error", i) >>
    /\ pc' = "terminated"
    /\ UNCHANGED << args, sockets, wire, values, i, j, triples, result, cout,
                    cerr >>

\* The receive loop left one round late: with every party's frame in, the
\* client waits for one more, which no party sends.
RR_ReceiveDone_oneMore ==
    /\ pc = "rr_recv"
    /\ i > nparties
    /\ pc' = "rr_check"
    /\ UNCHANGED << args, sockets, wire, values, i, j, triples, os,
                    output_values, result, cout, cerr, rcvd, events >>

\* The receive loop ends.
RR_ReceiveDone ==
    /\ pc = "rr_recv"
    /\ ~RR_MoreParties
    /\ pc' = "rr_check"
    /\ UNCHANGED << args, sockets, wire, values, i, j, triples, os,
                    output_values, result, cout, cerr, rcvd, events >>

\* The check with the comparison inverted.
OutputOK_inverted(ov) == gfpMul(ov[0], ov[1]) # ov[2]

\* The check with two components swapped.
OutputOK_swapped(ov) == gfpMul(ov[0], ov[2]) = ov[1]

\* output_values[0] * output_values[1] != output_values[2], negated
OutputOK(ov) == gfpMul(ov[0], ov[1]) = ov[2]

\* The output does not authenticate: exit(1).
RR_CheckFail ==
    /\ pc = "rr_check"
    /\ ~OutputOK(output_values)
    /\ events' = Append(events, Ev("check_output", 0))
    /\ cerr' = << "Unable to authenticate output value as correct" >>
    /\ pc' = "exit1"
    /\ UNCHANGED << args, sockets, wire, values, i, j, triples, os,
                    output_values, result, cout, rcvd >>

\* return output_values[0]
Returned(ov) == ov[0]

\* The output authenticates: receive_result returns to main.
RR_Return ==
    /\ pc = "rr_check"
    /\ OutputOK(output_values)
    /\ events' = Append(events, Ev("check_output", 0))
    /\ result' = << Returned(output_values) >>
    /\ i' = 0
    /\ pc' = "main_print"
    /\ UNCHANGED << args, sockets, wire, values, j, triples, os, output_values,
                    cout, cerr, rcvd >>

\* ------------------------------------------------------------- main, the end

\* cout << "Winning client id is : " << result
MainPrint ==
    /\ pc = "main_print"
    /\ cout' = result
    /\ i' = 0
    /\ pc' = "main_close"
    /\ UNCHANGED << args, sockets, wire, values, j, triples, os, output_values,
                    result, cerr, rcvd, events >>

\* One round of the close loop: close_client_socket(sockets[i]).
MainClose ==
    /\ pc = "main_close"
    /\ i < nparties
    /\ sockets' = [sockets EXCEPT ![i] = "closed"]
    /\ events' = Append(events, Ev("close", i))
    /\ i' = i + 1
    /\ UNCHANGED << pc, args, wire, values, j, triples, os, output_values,
                    result, cout, cerr, rcvd >>

\* return 0
MainReturn ==
    /\ pc = "main_close"
    /\ ~(i < nparties)
    /\ pc' = "exit0"
    /\ UNCHANGED << args, sockets, wire, values, i, j, triples, os,
                    output_values, result, cout, cerr, rcvd, events >>

Next ==
    \/ MainSetup
    \/ MainCallSPI
    \/ SPI_Receive
    \/ SPI_ReceiveFail
    \/ SPI_FramingError
    \/ SPI_ReceiveDone
    \/ SPI_CheckPass
    \/ SPI_CheckFail
    \/ SPI_Pack
    \/ SPI_Send
    \/ SPI_Return
    \/ MainCallRR
    \/ RR_Receive
    \/ RR_ReceiveFail
    \/ RR_FramingError
    \/ RR_ReceiveDone
    \/ RR_CheckFail
    \/ RR_Return
    \/ MainPrint
    \/ MainClose
    \/ MainReturn

Spec == Init /\ [][Next]_vars

\* The client is one thread: a statement that can run does run, and a Receive
\* on a socket returns (with a frame, or by throwing) once the party has
\* answered or the connection is gone.
SpecLive == Init /\ [][Next]_vars /\ WF_vars(Next)

\* A caller that hands send_private_inputs any of the value vectors and then
\* calls receive_result, as main does with its one value.
NextCalls ==
    \/ NextSPI
    \/ MainCallRR
    \/ RR_Receive
    \/ RR_ReceiveFail
    \/ RR_FramingError
    \/ RR_ReceiveDone
    \/ RR_CheckFail
    \/ RR_Return

SpecCalls == InitSPI /\ [][NextCalls]_vars

\* ------------------------------------------------------- what the claims use

\* The field sum of the element at position pos of every frame of log.
RECURSIVE SumAt(_, _)
SumAt(log, pos) ==
    IF log = <<>> THEN 0 ELSE (Head(log)[pos] + SumAt(Tail(log), pos)) % P

\* Some event of kind op has happened.
Happened(op) == \E n \in 1 .. Len(events) : events[n].op = op

\* The number of events of kind op among the first n events.
CountBefore(op, n) == Cardinality({ m \in 1 .. (n - 1) : events[m].op = op })

\* The parties (or slots) the events of kind op among the first n were about.
AtBefore(op, n) == { events[m].at : m \in { x \in 1 .. (n - 1) : events[x].op = op } }

\* The client is inside send_private_inputs, or has stopped inside it.
InSPI == pc \notin {"main_setup", "spi_ret"} /\ ~Happened("call_receive_result")

\* The client is inside receive_result, has stopped inside it, or is past it.
InRR == Happened("call_receive_result")

\* Every party's frame of the running function is in, with need elements.
AllIn(need) ==
    /\ Len(rcvd) = nparties
    /\ \A n \in 1 .. Len(rcvd) : Len(rcvd[n]) >= need

\* The reconstruction of the triple of slot s from the frames received.
A(s) == SumAt(rcvd, 3 * s + 1)
B(s) == SumAt(rcvd, 3 * s + 2)
C(s) == SumAt(rcvd, 3 * s + 3)
TripleHolds(s) == (A(s) * B(s)) % P = C(s)

\* The reconstruction of the output from the frames received.
Y == SumAt(rcvd, 1)
R == SumAt(rcvd, 2)
W == SumAt(rcvd, 3)
OutputHolds == (Y * R) % P = W

\* The masked-value frames the client has sent to party p.
MaskedSent(p) == SelectSeq(wire[p], LAMBDA m : m.kind = "masked")

\* main has the result of receive_result.
HasResult == pc \in {"main_print", "main_close", "exit0"}

\* ------------------------------------------------------------------- claims

\* C1: when the sums (Y, R, W) of the N parties' output shares have
\* Y*R # W, receive_result has returned nothing and nothing is printed: the
\* client is still collecting, at the check, or has exited with the abort
\* message.
C1_NoResultUnlessAuthentic ==
    (InRR /\ AllIn(3) /\ ~OutputHolds) =>
        /\ result = None
        /\ cout = None
        /\ pc \in {"rr_recv", "rr_check", "exit1"}
        /\ pc = "exit1" => cerr = << "Unable to authenticate output value as correct" >>

\* The output was rejected although Y, taken alone, is a value a client id
\* could have.
C1_Witness ==
    /\ pc = "exit1"
    /\ InRR
    /\ AllIn(3)
    /\ ~OutputHolds
    /\ nparties = 2
    /\ Y = 1

\* C2: what receive_result returns is Y, the field sum of the y shares of the
\* N frames received in this call, and it rejects only when Y*R # W.
C2_ReturnsY ==
    /\ HasResult => (AllIn(3) /\ OutputHolds /\ result = << Y >>)
    /\ (InRR /\ pc = "exit1") => (AllIn(3) /\ ~OutputHolds)

\* A result was returned that is the sum of two nonzero shares, after a
\* triple phase whose first component was not zero.
C2_Witness ==
    /\ pc = "main_print"
    /\ nparties = 2
    /\ rcvd[1][1] = 2
    /\ rcvd[2][1] = 2
    /\ result = << 1 >>
    /\ wire[0][3].val # << gfpFromInt(salary_value) >>

\* C3: when the triple reconstructed for some slot fails A*B = C, no
\* masked-value frame has been sent to any party, and none is being sent.
C3_NoSendOnBadTriple ==
    (InSPI /\ AllIn(TripleFrameLen) /\ \E s \in Slots : ~TripleHolds(s)) =>
        /\ \A p \in Parties : MaskedSent(p) = <<>>
        /\ ~Happened("send_masked")
        /\ pc \in {"spi_recv", "spi_check", "exit1"}

\* The client has exited on the second slot's triple after the first one
\* passed.
C3_Witness ==
    /\ pc = "exit1"
    /\ InSPI
    /\ num_inputs = 2
    /\ TripleHolds(0)
    /\ ~TripleHolds(1)
    /\ \A p \in Parties : MaskedSent(p) = <<>>

\* C4: the slot reported with "Incorrect triple at" is the lowest slot whose
\* reconstructed triple violates A*B = C, and the slots examined are exactly
\* the slots up to it, each once and in order.
C4_ReportsLowestBadSlot ==
    (pc = "exit1" /\ InSPI) =>
        /\ cerr[1] = "Incorrect triple at"
        /\ cerr[2] \in Slots
        /\ ~TripleHolds(cerr[2])
        /\ \A s \in 0 .. (cerr[2] - 1) : TripleHolds(s)
        /\ SelectSeq(events, LAMBDA e : e.op = "check_triple")
              = [n \in 1 .. (cerr[2] + 1) |-> Ev("check_triple", n - 1)]

\* Both slots are bad: slot 0 is reported and slot 1 was never examined.
C4_Witness ==
    /\ pc = "exit1"
    /\ InSPI
    /\ num_inputs = 2
    /\ ~TripleHolds(0)
    /\ ~TripleHolds(1)
    /\ cerr[2] = 0
    /\ ~\E n \in 1 .. Len(events) : events[n] = Ev("check_triple", 1)

\* C5: when the shares of every slot sum to a triple with A*B = C, the
\* triples the client holds are the sums, over all N parties, of that slot's
\* shares, component by component, and the client does not abort.
C5_TruthfulTriplesAccepted ==
    (InSPI /\ AllIn(TripleFrameLen) /\ \A s \in Slots : TripleHolds(s)) =>
        /\ \A s \in Slots :
              triples[s] = [k \in 0 .. 2 |-> SumAt(rcvd, 3 * s + k + 1)]
        /\ \A s \in Slots : (triples[s][0] * triples[s][1]) % P = triples[s][2]
        /\ pc \in {"spi_recv", "spi_check", "spi_send"}
        /\ cerr = None

\* Two slots with different valid triples, both nonzero, the send step
\* reached.
C5_Witness ==
    /\ pc = "spi_send"
    /\ nparties = 2
    /\ num_inputs = 2
    /\ triples[0] = [k \in 0 .. 2 |-> 1]
    /\ triples[1] = [k \in 0 .. 2 |-> IF k = 2 THEN 1 ELSE 2]

\* C6: once the send loop runs, every party already served has been sent
\* exactly one masked-value frame, the same for all, whose element for slot s
\* is values[s] + A[s] in slot order; the parties not yet served have none.
C6_SameMaskedFrameToAll ==
    pc = "spi_send" =>
        \A p \in Parties :
            MaskedSent(p) =
                IF p < j
                THEN << [kind |-> "masked",
                         val |-> [s \in 1 .. num_inputs |->
                                     (values[s] + A(s - 1)) % P]] >>
                ELSE <<>>

\* A = 5 and the value 7 give 12 to every party, read in the field of 3
\* elements: A = 2, value 1, masked value 0, and both parties have it.
C6_Witness ==
    /\ pc = "spi_send"
    /\ nparties = 2
    /\ j = nparties
    /\ values = << 1 >>
    /\ A(0) = 2
    /\ rcvd[1][1] = 1
    /\ \A p \in Parties : MaskedSent(p) = << [kind |-> "masked", val |-> << 0 >>] >>

\* C7: every triple check and every send of masked values comes after a
\* triple frame was received from each of the N parties, and the output check
\* and the return come after an output frame was received from each of them.
C7_CollectAllBarrier ==
    /\ \A n \in 1 .. Len(events) :
          /\ events[n].op \in {"check_triple", "send_masked"} =>
                /\ AtBefore("recv_triples", n) = Parties
                /\ CountBefore("recv_triples", n) = nparties
                /\ CountBefore("framing_error", n) = 0
          /\ events[n].op = "check_output" =>
                /\ AtBefore("recv_output", n) = Parties
                /\ CountBefore("recv_output", n) = nparties
                /\ CountBefore("framing_error", n) = 0
    /\ result # None => Happened("check_output")

\* A run with two parties went through both checks and returned.
C7_Witness ==
    /\ pc = "exit0"
    /\ nparties = 2
    /\ Happened("check_triple")
    /\ Happened("send_masked")
    /\ Happened("check_output")

\* C8: a failed receive is the last thing the client does: it stops there,
\* nothing is returned or printed, and the operation it was in has checked
\* nothing and (send_private_inputs) sent no masked value.
C8_ReceiveFailureAborts ==
    \A n \in 1 .. Len(events) :
        events[n].op = "recv_fail" =>
            /\ n = Len(events)
            /\ pc = "terminated"
            /\ result = None
            /\ cout = None
            /\ InSPI => (~Happened("check_triple") /\ ~Happened("send_masked")
                           /\ \A p \in Parties : MaskedSent(p) = <<>>)
            /\ InRR => ~Happened("check_output")

\* The receive from the second of two parties failed in receive_result with
\* the first party's shares already summed into (Y, R, W).
C8_Witness ==
    /\ pc = "terminated"
    /\ InRR
    /\ nparties = 2
    /\ events[Len(events)] = Ev("recv_fail", 1)
    /\ output_values = [k \in 0 .. 2 |-> 2]
    /\ result = None

\* The number of elements the running function decodes from a frame.
ExpectedLen == IF InRR THEN 3 ELSE TripleFrameLen

\* C9: a frame with fewer or with more elements than expected is fatal: no
\* further frame is received after it and the operation never gets from the
\* receive loop to its algebraic check, let alone past it.
C9_WrongCountIsFatal ==
    \A n \in 1 .. Len(rcvd) :
        Len(rcvd[n]) # ExpectedLen =>
            /\ n = Len(rcvd)
            /\ pc \in {"spi_recv", "rr_recv", "terminated"}

\* C10: in every terminal state of a run (result accepted, triple rejected,
\* output rejected) close_client_socket has been called on every socket.
C10_ClosedInEveryTerminalState ==
    pc \in {"exit0", "exit1"} => \A p \in Parties : sockets[p] = "closed"

\* The triples send_private_inputs holds after decoding the frames of log,
\* n input slots, starting from tr.
RECURSIVE Reconstruct(_, _, _)
Reconstruct(log, tr, n) ==
    IF log = <<>> THEN tr
    ELSE Reconstruct(Tail(log), Accumulate(tr, Head(log), 3 * n), n)

\* The frames of a run in which party p sends what it sent in this run and
\* every other party sends alt[q], any three field elements.
OtherRun(p, alt) == [n \in 1 .. nparties |-> IF n - 1 = p THEN rcvd[n] ELSE alt[n - 1]]

\* What party p sees of a run with the one private value v and the triple
\* frames log: its own frame, and the frames the client sends to it.
ViewOf(p, v, log) ==
    << log[p + 1],
       << [kind |-> "id", val |-> my_client_id],
          [kind |-> "finish", val |-> finish],
          [kind |-> "masked",
           val |-> PackMasked(<< v >>, Reconstruct(log, ZeroTriples(1), 1))] >> >>

\* C11: with two or more parties, what one party has seen once the masked
\* value is out (its own triple frame and everything the client sent to it)
\* is also what it sees in a run with any other private value, its own frame
\* the same and the other parties' shares chosen suitably, that run passing
\* the triple check as well; and all the client ever sends is the id, the
\* finish flag and one masked frame.
C11_MaskHidesInput ==
    /\ \A p \in Parties : \A n \in 1 .. Len(wire[p]) :
          /\ wire[p][n].kind \in {"id", "finish", "masked"}
          /\ wire[p][n].kind = "id" => wire[p][n].val = my_client_id
          /\ wire[p][n].kind = "finish" => wire[p][n].val = finish
          /\ wire[p][n].kind = "masked" => n = 3
    /\ (pc = "spi_send" /\ j = nparties /\ nparties >= 2) =>
          \A p \in Parties :
              /\ << rcvd[p + 1], wire[p] >> = ViewOf(p, values[1], rcvd)
              /\ \A v \in Gfp :
                    \E alt \in [Parties \ {p} -> Seqs(Gfp, 3)] :
                        /\ TripleOK(Reconstruct(OtherRun(p, alt), ZeroTriples(1), 1)[0])
                        /\ ViewOf(p, v, OtherRun(p, alt)) = << rcvd[p + 1], wire[p] >>

\* Two parties, both with nonzero a-shares, have been sent the masked value of
\* a nonzero private value.
C11_Witness ==
    /\ pc = "spi_send"
    /\ nparties = 2
    /\ j = nparties
    /\ values = << 2 >>
    /\ rcvd[1][1] = 1
    /\ rcvd[2][1] = 2
    /\ MaskedSent(0) = << [kind |-> "masked", val |-> << 2 >>] >>

\* The output frames received, with d taken off the y share of party p: what
\* the parties would have sent had p not added d to its y share.
Untampered(p, d) ==
    [n \in 1 .. Len(rcvd) |->
        IF n - 1 = p
        THEN [x \in 1 .. Len(rcvd[n]) |->
                 IF x = 1 THEN (rcvd[n][x] + P - d) % P ELSE rcvd[n][x]]
        ELSE rcvd[n]]

\* The frames received are truthful frames (Y*R = W) in which party p has
\* added d to its y share, with R not zero.
TamperedBy(p, d) ==
    /\ R # 0
    /\ (SumAt(Untampered(p, d), 1) * SumAt(Untampered(p, d), 2)) % P
          = SumAt(Untampered(p, d), 3)

\* receive_result has returned nothing and the client is collecting, at the
\* check, or has exited with an abort message.
NothingReturned ==
    /\ result = None
    /\ cout = None
    /\ pc \in {"rr_recv", "rr_check", "exit1"}
    /\ pc = "exit1" => cerr # None

\* C12: when the N output frames are truthful frames in which one party has
\* changed its y share by a nonzero amount, and R is not zero, receive_result
\* returns nothing.  Read from the other end: where the N frames are in and
\* the client is anywhere else than collecting, checking or rejected, the
\* frames are no such frames, for any party and any nonzero amount.
C12_TamperedYRejected ==
    (AllIn(3) /\ InRR /\ ~NothingReturned) =>
        \A p \in Parties : \A d \in Gfp \ {0} : ~TamperedBy(p, d)

\* The second of two parties added 1 to its y share of frames that summed to
\* (1, 2, 2), and the client has exited.
C12_Witness ==
    /\ pc = "exit1"
    /\ InRR
    /\ nparties = 2
    /\ AllIn(3)
    /\ TamperedBy(1, 1)
    /\ << Y, R, W >> = << 2, 2, 2 >>

\* The phase an operation on a channel belongs to: 1 the triple receives,
\* 2 the masked sends, 3 the output receives; 0 for what is no channel
\* operation of the two functions.
Phase(op) ==
    CASE op \in {"recv_triples"} -> 1
      [] op = "send_masked" -> 2
      [] op = "recv_output" -> 3
      [] OTHER -> 0

\* C13: the channel operations of a session come in three phases that do not
\* overlap: the triple receives, then the masked sends, then the output
\* receives; the first masked send comes after the triple receive from every
\* party and the first output receive after the masked send to every party.
C13_PhasesInSequence ==
    LET ops == SelectSeq(events, LAMBDA e : Phase(e.op) > 0)
    IN  /\ \A n \in 1 .. (Len(ops) - 1) : Phase(ops[n].op) <= Phase(ops[n + 1].op)
        /\ \A n \in 1 .. Len(ops) :
              /\ (ops[n].op = "send_masked" /\ (n = 1 \/ ops[n - 1].op # "send_masked"))
                    => { ops[m].at : m \in 1 .. (n - 1) } = Parties
              /\ (ops[n].op = "recv_output" /\ (n = 1 \/ ops[n - 1].op # "recv_output"))
                    => /\ n = 2 * nparties + 1
                       /\ { ops[m].at : m \in (nparties + 1) .. (n - 1) } = Parties
                       /\ \A m \in (nparties + 1) .. (n - 1) : ops[m].op = "send_masked"

\* With two parties the client is receiving output shares, both masked sends
\* behind it.
C13_Witness ==
    /\ pc = "rr_recv"
    /\ nparties = 2
    /\ i = 1
    /\ events[Len(events)] = Ev("recv_output", 0)
    /\ \A p \in Parties : Len(MaskedSent(p)) = 1

\* The operations a retry would repeat.
OnceOnly == {"recv_triples", "check_triple", "send_masked", "recv_output",
             "check_output"}

\* C14: a failed check is the last thing the client does: once an abort
\* message is out the client has exited, the failing check is its last
\* operation and nothing was returned; after a bad triple no masked value was
\* sent and receive_result was never entered; and no receive, check or send is
\* ever done a second time for the same party or slot.
C14_RejectedIsTerminal ==
    /\ cerr # None =>
          /\ pc = "exit1"
          /\ events[Len(events)].op \in {"check_triple", "check_output"}
          /\ result = None
          /\ cout = None
          /\ cerr[1] = "Incorrect triple at" =>
                /\ events[Len(events)] = Ev("check_triple", cerr[2])
                /\ ~Happened("send_masked")
                /\ ~Happened("call_receive_result")
                /\ ~Happened("recv_output")
    /\ pc = "exit1" => cerr # None
    /\ \A n \in 1 .. Len(events) :
          events[n].op \in OnceOnly => \A m \in 1 .. (n - 1) : events[m] # events[n]

\* With two parties the client has exited on a bad triple, no output share
\* read.
C14_Witness ==
    /\ pc = "exit1"
    /\ nparties = 2
    /\ cerr = << "Incorrect triple at", 0 >>
    /\ events[Len(events)] = Ev("check_triple", 0)
    /\ rcvd = << << 1, 2, 0 >>, << 1, 0, 0 >> >>

\* The handshake messages among what the client has sent to party p.
HandshakeSent(p) == SelectSeq(wire[p], LAMBDA m : m.kind \in {"id", "finish"})

\* C15: a connection that is set up has been sent the client id and then the
\* finish flag, once each, as given on the command line and the same for
\* every party, before anything else is sent on it; and the operations the
\* client has performed start with connect, id, finish flag for each
\* connection set up, party by party, none of them repeated later, and
\* anything else (the first triple receive included) comes only when all N
\* connections are set up.
C15_HandshakeFirst ==
    /\ \A p \in Parties :
          IF sockets[p] = "unset"
          THEN wire[p] = <<>>
          ELSE /\ HandshakeSent(p) = << [kind |-> "id", val |-> my_client_id],
                                        [kind |-> "finish", val |-> finish] >>
               /\ SubSeq(wire[p], 1, 2) = HandshakeSent(p)
    /\ LET done == Cardinality({ p \in Parties : sockets[p] # "unset" })
           shake == [n \in 1 .. (3 * done) |->
                        Ev(<< "connect", "send_id", "send_finish" >>[((n - 1) % 3) + 1],
                           (n - 1) \div 3)]
       IN  /\ Len(events) >= 3 * done
           /\ SubSeq(events, 1, 3 * done) = shake
           /\ \A n \in (3 * done + 1) .. Len(events) :
                 events[n].op \notin {"connect", "send_id", "send_finish"}
           /\ Len(events) > 3 * done => done = nparties

\* Client 2 with the finish flag set has read the first of two triple frames;
\* both engines have its id and flag.
C15_Witness ==
    /\ pc = "spi_recv"
    /\ nparties = 2
    /\ Len(rcvd) = 1
    /\ my_client_id = 2
    /\ finish = 1
    /\ \A p \in Parties : wire[p] = << [kind |-> "id", val |-> 2],
                                        [kind |-> "finish", val |-> 1] >>

\* The field sum of the element at position pos over the frames of log that
\* have one there.
RECURSIVE SumPresent(_, _)
SumPresent(log, pos) ==
    IF log = <<>> THEN 0
    ELSE ((IF Len(Head(log)) >= pos THEN Head(log)[pos] ELSE 0)
            + SumPresent(Tail(log), pos)) % P

\* The events of kind op, in order.
EventsOf(op) == SelectSeq(events, LAMBDA e : e.op = op)

\* The events of kind op are one for each of the first n parties, in order.
InPartyOrder(op, n) == EventsOf(op) = [x \in 1 .. n |-> Ev(op, x - 1)]

\* C16: in each function the frames are received one per party in the order
\* 0..N-1, and between two receives every frame received so far is summed in,
\* element 3*s+k of a triple frame into triples[s][k] and element k of an
\* output frame into output_values[k], once each.
C16_OneFramePerPartyInOrder ==
    /\ InSPI =>
          /\ Len(rcvd) <= nparties
          /\ InPartyOrder("recv_triples", Len(rcvd))
          /\ pc = "spi_recv" => j = Len(rcvd)
          /\ pc \in {"spi_check", "spi_send"} => Len(rcvd) = nparties
          /\ \A s \in Slots : \A k \in 0 .. 2 :
                triples[s][k] = SumPresent(rcvd, 3 * s + k + 1)
    /\ InRR =>
          /\ Len(rcvd) <= nparties
          /\ InPartyOrder("recv_output", Len(rcvd))
          /\ pc = "rr_recv" => i = Len(rcvd)
          /\ pc \in {"rr_check", "main_print", "main_close", "exit0"}
                => Len(rcvd) = nparties
          /\ \A k \in 0 .. 2 : output_values[k] = SumPresent(rcvd, k + 1)
    /\ ~InRR => EventsOf("recv_output") = <<>>

\* Between the two receives of a two-party run with two input slots: the
\* first frame, six different positions, is summed in and j is 1.
C16_Witness ==
    /\ pc = "spi_recv"
    /\ nparties = 2
    /\ num_inputs = 2
    /\ j = 1
    /\ rcvd = << << 1, 0, 0, 0, 1, 1 >> >>
    /\ triples[0] = [k \in 0 .. 2 |-> IF k = 0 THEN 1 ELSE 0]
    /\ triples[1] = [k \in 0 .. 2 |-> IF k = 0 THEN 0 ELSE 1]

\* The output sums receive_result holds after decoding the frames of log,
\* starting from ov.
RECURSIVE ReconstructOutput(_, _)
ReconstructOutput(log, ov) ==
    IF log = <<>> THEN ov
    ELSE ReconstructOutput(Tail(log), AccumulateOutput(ov, Head(log), 3))

\* The orders in which n frames can be assigned to the channel indices, for
\* every number of parties.
AllChannelOrders ==
    [n \in 1 .. MaxParties |->
        { f \in [1 .. n -> 1 .. n] : \A x, y \in 1 .. n : f[x] = f[y] => x = y }]

ChannelOrders(n) == AllChannelOrders[n]

\* The frames received, party f[x] on channel x.
Permuted(f) == [x \in 1 .. Len(rcvd) |-> rcvd[f[x]]]

\* The slot send_private_inputs reports for the triples tr with n slots: the
\* first that fails the check, n if none does.
RECURSIVE FirstBad(_, _, _)
FirstBad(tr, s, n) ==
    IF s >= n THEN n
    ELSE IF ~TripleOK(tr[s]) THEN s ELSE FirstBad(tr, s + 1, n)

\* C18: where a function has come to its outcome with the N frames received
\* (abort at a slot, or the masked frame sent to all; rejection, or Y
\* returned), the function run on the same frames in any other assignment to
\* the channels holds the same sums, and the outcome is the one those sums
\* decide.
C18_PartyOrderIrrelevant ==
    /\ ((pc = "exit1" \/ (pc = "spi_send" /\ j = nparties))
          /\ InSPI /\ AllIn(TripleFrameLen)) =>
          /\ \A f \in ChannelOrders(nparties) :
                Reconstruct(Permuted(f), ZeroTriples(num_inputs), num_inputs)
                    = triples
          /\ pc = "exit1" => cerr = << "Incorrect triple at",
                                       FirstBad(triples, 0, num_inputs) >>
          /\ pc = "spi_send" =>
                /\ FirstBad(triples, 0, num_inputs) = num_inputs
                /\ \A p \in Parties :
                      MaskedSent(p) = << [kind |-> "masked",
                                          val |-> PackMasked(values, triples)] >>
    /\ (pc \in {"exit1", "main_print"} /\ InRR /\ AllIn(3)) =>
          /\ \A f \in ChannelOrders(nparties) :
                ReconstructOutput(Permuted(f), ZeroOutput) = output_values
          /\ pc = "exit1" => ~OutputOK(output_values)
          /\ pc = "main_print" =>
                (OutputOK(output_values) /\ result = << Returned(output_values) >>)

\* Two parties with different frames for two slots; the client has exited on
\* slot 1, as it would with the frames the other way round.
C18_Witness ==
    /\ pc = "exit1"
    /\ InSPI
    /\ nparties = 2
    /\ num_inputs = 2
    /\ rcvd[1] # rcvd[2]
    /\ rcvd[1] = << 1, 1, 0, 1, 0, 0 >>
    /\ cerr = << "Incorrect triple at", 1 >>

\* The run has ended with the result returned, printed, and main left.
Accepted == pc = "exit0" /\ result # None /\ cout = result

\* The run has ended in exit(1) after a failed triple or output check.
Rejected == pc = "exit1" /\ cerr # None

\* A party has not delivered a frame: the Receive threw, or the frame ended
\* before the elements the client unpacks.
Undelivered == Happened("recv_fail") \/ Happened("framing_error")

\* C17: every run in which each party delivers the frames the client waits
\* for (none is missing, none ends early) comes to a terminal state, Accepted
\* or Rejected; the client does not stay in a receive, check, send or close
\* loop for ever.
C17_Terminates == <>(Accepted \/ Rejected \/ Undelivered)

\* Two parties have each delivered a triple frame and an output frame, and
\* the client has come to Accepted with both sockets closed.
C17_Witness ==
    /\ Accepted
    /\ nparties = 2
    /\ ~Undelivered
    /\ Len(EventsOf("recv_triples")) = 2
    /\ Len(EventsOf("recv_output")) = 2
    /\ \A p \in Parties : sockets[p] = "closed"

====
